---- MODULE Spec2Model ----
(***************************************************************************)
(* Model of the image hosting server (src/server.js): the upload, list and *)
(* delete handlers over the two storage backends (local directory, S3).    *)
(* File names and keys are sequences of one-character strings, so that the *)
(* string operations of the handlers (replace, extname, basename) are      *)
(* computed as JavaScript computes them.                                   *)
(***************************************************************************)
EXTENDS Integers, Sequences, FiniteSets, Bags, TLC

VARIABLES
  STORAGE,        \* line 24: 'local' or 's3', fixed at startup
  ADMIN_KEY,      \* line 31: the delete key, '' when none is configured
  clock,          \* Date.now()
  store,          \* the backend: key -> modification time
  up,             \* the uploads in flight (a bag of request records)
  del,            \* the deletes in flight
  lst,            \* the lists in flight
  resp,           \* the response sent last, with the request it answers
  started,        \* the number of requests received so far
  returned,       \* the file and thumbnail names uploads have answered 200 with
  deleteStarted   \* the file names a delete has passed the key check for

vars == <<STORAGE, ADMIN_KEY, clock, store, up, del, lst, resp, started,
          returned, deleteStarted>>

\* ---------------------------------------------------------------- bounds
\* requests (uploads, deletes, lists) the server receives in one run
MaxRequests == 2
\* milliseconds Date.now() advances through
MaxClock == 2
\* keys S3 answers one listObjectsV2 call with: the service's page size (1000
\* when the call sets no MaxKeys), scaled to the backends explored here
MaxKeys == 3

\* ------------------------------------------------------ program constants
MAX_FILE_SIZE == 5242880

ALLOWED == {"image/jpeg", "image/png", "image/webp", "image/gif", "image/avif"}

\* ---------------------------------------------------------------- strings
DOT == <<".">>
SLASH == <<"/">>
THUMB_MARK == <<"_", "t", "h", "u", "m", "b">>
IMAGES_PREFIX == <<"i", "m", "a", "g", "e", "s", "/">>
UPLOAD_DIR == <<"u", "p", "l", "o", "a", "d", "s">>
THUMBS == <<"t", "h", "u", "m", "b", "s">>
THUMB_DIR == UPLOAD_DIR \o SLASH \o THUMBS

\* String.prototype.indexOf: 1-based position of the first occurrence, 0 if none
IndexOf(s, pat) ==
  LET hits == {i \in 1..(Len(s) - Len(pat) + 1) : SubSeq(s, i, i + Len(pat) - 1) = pat}
  IN IF hits = {} THEN 0 ELSE CHOOSE i \in hits : \A j \in hits : i <= j

\* String.prototype.lastIndexOf
LastIndexOf(s, pat) ==
  LET hits == {i \in 1..(Len(s) - Len(pat) + 1) : SubSeq(s, i, i + Len(pat) - 1) = pat}
  IN IF hits = {} THEN 0 ELSE CHOOSE i \in hits : \A j \in hits : i >= j

\* String.prototype.replace with a string pattern: the first occurrence only
Replace(s, pat, rep) ==
  LET i == IndexOf(s, pat)
  IN IF i = 0 THEN s
     ELSE SubSeq(s, 1, i - 1) \o rep \o SubSeq(s, i + Len(pat), Len(s))

EndsWith(s, suf) ==
  Len(s) >= Len(suf) /\ SubSeq(s, Len(s) - Len(suf) + 1, Len(s)) = suf

StartsWith(s, pre) ==
  Len(s) >= Len(pre) /\ SubSeq(s, 1, Len(pre)) = pre

\* path.basename (posix): the part after the last slash
Basename(p) ==
  LET i == LastIndexOf(p, SLASH) IN SubSeq(p, i + 1, Len(p))

\* path.extname: from the last dot of the basename; empty when there is no
\* dot or the only dot is the first character of the basename
Extname(p) ==
  LET b == Basename(p)
      i == LastIndexOf(b, DOT)
  IN IF i <= 1 THEN <<>>
     ELSE IF \A j \in 1..i : b[j] = "." THEN <<>>
     ELSE SubSeq(b, i, Len(b))

\* path.join(dir, name)
PathJoin(dir, name) == dir \o SLASH \o name

\* Number.prototype.toString in decimal, as a character sequence
RECURSIVE DecStr(_)
DecStr(n) ==
  LET d == <<"0", "1", "2", "3", "4", "5", "6", "7", "8", "9">>
  IN IF n < 10 THEN <<d[n + 1]>> ELSE DecStr(n \div 10) \o <<d[(n % 10) + 1]>>

\* mime.extension: the first extension registered for the type, <<>> for false
MimeExtension(t) ==
  CASE t = "image/jpeg" -> <<"j", "p", "e", "g">>
    [] t = "image/png" -> <<"p", "n", "g">>
    [] t = "image/webp" -> <<"w", "e", "b", "p">>
    [] t = "image/gif" -> <<"g", "i", "f">>
    [] t = "image/avif" -> <<"a", "v", "i", "f">>
    [] t = "application/pdf" -> <<"p", "d", "f">>
    [] t = "text/plain" -> <<"t", "x", "t">>
    [] OTHER -> <<>>

\* String.prototype.slice(1)
Slice1(s) == IF s = <<>> THEN <<>> ELSE Tail(s)

\* ------------------------------------------------------------ naming rule
PNG_EXT == <<"p", "n", "g">>

\* UploadExt always taking the default
UploadExtDefault(detected) == PNG_EXT

\* line 111: mime.extension(detected) || 'png'
UploadExt(detected) ==
  IF MimeExtension(detected) = <<>> THEN PNG_EXT ELSE MimeExtension(detected)

\* line 112: `${Date.now()}-${Math.random().toString(36).slice(2)}.${ext}`
GenFilename(now, rand, ext) == DecStr(now) \o <<"-">> \o rand \o DOT \o ext

\* line 113: filename.replace(`.${ext}`, `_thumb.${ext}`)
UploadThumbName(filename, ext) ==
  Replace(filename, DOT \o ext, THUMB_MARK \o DOT \o ext)

\* DeleteThumbName with the dot left out of the replacement
DeleteThumbNameNoDot(file) ==
  LET ext == Slice1(Extname(file))
  IN Replace(file, DOT \o ext, THUMB_MARK \o ext)

\* lines 216-217 and 222-223: the thumbnail name Delete computes
DeleteThumbName(file) ==
  LET ext == Slice1(Extname(file))
  IN Replace(file, DOT \o ext, THUMB_MARK \o DOT \o ext)

\* line 164: the thumbnail name List computes on the S3 backend
ListThumbS3(file) == Replace(file, DOT, THUMB_MARK \o DOT)

\* lines 180-181: the thumbnail name List computes on the local backend
ListThumbLocal(f) ==
  LET ext == Slice1(Extname(f))
  IN Replace(f, DOT \o ext, THUMB_MARK \o DOT \o ext)

\* ---------------------------------------------------------------- backend
\* store maps each key present in the backend to its modification time.
\* S3 keys are images/<name>; local paths are uploads/<name> and
\* uploads/thumbs/<name>.
OriginalKey(storage, filename) ==
  IF storage = "s3" THEN IMAGES_PREFIX \o filename ELSE PathJoin(UPLOAD_DIR, filename)

ThumbKey(storage, thumbName) ==
  IF storage = "s3" THEN IMAGES_PREFIX \o thumbName ELSE PathJoin(THUMB_DIR, thumbName)

Exists(st, key) == key \in DOMAIN st

Put(st, key, now) ==
  [k \in DOMAIN st \cup {key} |-> IF k = key THEN now ELSE st[k]]

\* Remove leaving the key in place
RemoveNothing(st, key) == st

Remove(st, key) == [k \in DOMAIN st \ {key} |-> st[k]]

\* ------------------------------------------------------- requests in flight
One(r) == SetToBag({r})

\* the bag with one copy of r replaced by q
Step(bag, r, q) == (bag (-) One(r)) (+) One(q)

\* the bag with one copy of r removed
Leave(bag, r) == bag (-) One(r)

InFlight(bag) == BagToSet(bag)

Answer(kind, r) == [kind |-> kind, req |-> r]

NoAnswer == [kind |-> "none"]

Op(name, key) == [op |-> name, key |-> key]

Respond(r, status, error, cause) ==
  [r EXCEPT !.pc = "done", !.status = status, !.error = error, !.cause = cause]

\* ----------------------------------------------------------------- upload
NONE == "undefined"
PNG == "image/png"
GIF == "image/gif"
PDF == "application/pdf"
TXT == "text/plain"

\* the files a client sends: what the leading bytes are sniffed as (line 103)
\* and the type the client declares (req.file.mimetype)
File(sniff, declared) == [sniff |-> sniff, declared |-> declared]

\* images, and files that are none, under an image's declared type
ImageFiles == {File(PNG, GIF), File(PDF, GIF)}

\* files of any content under any declared type
AnyFiles == {File(PNG, GIF), File(PDF, GIF), File(NONE, GIF), File(NONE, TXT)}
Sizes == {MAX_FILE_SIZE, MAX_FILE_SIZE + 1}
Rands == {<<"a">>, <<"b">>}

\* TooLarge with no limit set
TooLargeNever(size) == FALSE

\* line 62: multer rejects a file larger than limits.fileSize
TooLarge(size) == size > MAX_FILE_SIZE

\* Detected trusting the declared type
DetectedAsDeclared(sniff, declared) == declared

\* line 104: ft ? ft.mime : req.file.mimetype
Detected(sniff, declared) == IF sniff # NONE THEN sniff ELSE declared

\* line 106
Accepted(detected) == detected \in ALLOWED

NewUpload ==
  [pc |-> "handler", hasFile |-> FALSE, size |-> 0, sniff |-> NONE, declared |-> NONE,
   detected |-> NONE, filename |-> <<>>, thumbName |-> <<>>, thumb |-> "",
   ops |-> <<>>, status |-> 0, error |-> "", cause |-> ""]

\* UploadHandler going on to the puts whether or not sharp derived a thumbnail
UploadHandlerUnchecked(r, now, rand, thumbOk) ==
  LET detected == IF r.sniff # NONE THEN r.sniff ELSE r.declared
      ext == UploadExt(detected)
      filename == GenFilename(now, rand, ext)
      named == [r EXCEPT !.detected = detected, !.filename = filename,
                         !.thumbName = UploadThumbName(filename, ext),
                         !.thumb = IF thumbOk THEN "derived" ELSE "failed"]
  IN IF ~r.hasFile THEN Respond(r, 400, "No file uploaded", "")
     ELSE IF detected \notin ALLOWED THEN Respond(r, 400, "Unsupported file type", "")
     ELSE [named EXCEPT !.pc = "putOriginal"]

\* lines 99-119: the file check, sniffing, the allow-list, the names and the
\* thumbnail, which sharp derives (thumbOk) or fails to
UploadHandler(r, now, rand, thumbOk) ==
  LET detected == Detected(r.sniff, r.declared)
      ext == UploadExt(detected)
      filename == GenFilename(now, rand, ext)
      named == [r EXCEPT !.detected = detected, !.filename = filename,
                         !.thumbName = UploadThumbName(filename, ext),
                         !.thumb = IF thumbOk THEN "derived" ELSE "failed"]
  IN IF ~r.hasFile THEN Respond(r, 400, "No file uploaded", "")
     ELSE IF ~Accepted(detected) THEN Respond(r, 400, "Unsupported file type", "")
     ELSE IF ~thumbOk THEN Respond(named, 500, "Server error", "sharp")
     ELSE [named EXCEPT !.pc = "putOriginal"]

\* lines 60-63: upload.single('image') buffers the file and passes an
\* over-long one to the error handler, not to the handler
Multer(r) ==
  IF r.hasFile /\ TooLarge(r.size) THEN Respond(r, 500, "LIMIT_FILE_SIZE", "multer")
  ELSE r

\* lines 98-119: a request arrives and runs up to the first put
UploadReceive(files) ==
  /\ started < MaxRequests
  /\ started' = started + 1
  /\ \E hasFile \in BOOLEAN, size \in Sizes, file \in files, rand \in Rands,
        thumbOk \in BOOLEAN :
       LET r == IF hasFile
                  THEN [NewUpload EXCEPT !.hasFile = TRUE, !.size = size,
                                         !.sniff = file.sniff, !.declared = file.declared]
                  ELSE NewUpload
           q == IF Multer(r).pc = "done" THEN Multer(r)
                ELSE UploadHandler(r, clock, rand, thumbOk)
       IN IF q.pc = "done"
            THEN /\ resp' = Answer("upload", q)
                 /\ up' = up
            ELSE /\ up' = up (+) One(q)
                 /\ resp' = resp
  /\ UNCHANGED <<STORAGE, ADMIN_KEY, clock, store, del, lst, returned, deleteStarted>>

\* lines 140-147: the names in the metadata a successful upload answers with
Asset(filename, thumbName) == [file |-> filename, thumbnail |-> thumbName]

\* lines 125 and 129-131: the put of the original resolves or rejects
UploadPutOriginal(r) ==
  /\ r.pc = "putOriginal"
  /\ LET key == OriginalKey(STORAGE, r.filename)
         q == [r EXCEPT !.ops = Append(@, Op("put", key))]
     IN \E ok \in BOOLEAN :
          IF ok THEN /\ store' = Put(store, key, clock)
                     /\ up' = Step(up, r, [q EXCEPT !.pc = "putThumb"])
                     /\ resp' = resp
          ELSE /\ store' = store
               /\ up' = Leave(up, r)
               /\ resp' = Answer("upload", Respond(q, 500, "Server error", "io"))
  /\ UNCHANGED <<STORAGE, ADMIN_KEY, clock, del, lst, started, returned, deleteStarted>>

\* UploadCatchThumb swallowing the error
UploadCatchThumbSwallowed(q) == Respond(q, 200, "", "")

\* lines 148-151: what the handler does when the put of the thumbnail
\* rejects: it logs the error and answers 500
UploadCatchThumb(q) == Respond(q, 500, "Server error", "io")

\* lines 126 and 130-132, then lines 140-147: the put of the thumbnail and
\* the response
UploadPutThumb(r) ==
  /\ r.pc = "putThumb"
  /\ LET key == ThumbKey(STORAGE, r.thumbName)
         q == [r EXCEPT !.ops = Append(@, Op("put", key))]
     IN \E ok \in BOOLEAN :
          LET a == IF ok THEN Respond(q, 200, "", "") ELSE UploadCatchThumb(q)
          IN /\ store' = IF ok THEN Put(store, key, clock) ELSE store
             /\ resp' = Answer("upload", a)
             /\ returned' = IF a.status = 200
                               THEN returned \cup {Asset(r.filename, r.thumbName)}
                               ELSE returned
  /\ up' = Leave(up, r)
  /\ UNCHANGED <<STORAGE, ADMIN_KEY, clock, del, lst, started, deleteStarted>>

\* ----------------------------------------------------------------- delete
SuppliedKeys == {"", "abc", "ABC"}
AdminKeys == {"", "abc"}

\* Forbidden asking only for some key
ForbiddenWhenAbsent(adminKey, key) == adminKey # "" /\ key = ""

\* line 211: ADMIN_KEY && key !== ADMIN_KEY
Forbidden(adminKey, key) == adminKey # "" /\ key # adminKey

NewDelete ==
  [pc |-> "original", file |-> <<>>, key |-> "", again |-> FALSE, ops |-> <<>>,
   status |-> 0, error |-> "", cause |-> ""]

\* line 212: the ids a client names are file names of originals: those in
\* the backend, those of the uploads in flight, those answered or deleted
KnownFiles ==
  {Basename(k) : k \in {j \in DOMAIN store : IndexOf(j, THUMB_MARK) = 0}}
  \cup {r.filename : r \in {q \in InFlight(up) : q.filename # <<>>}}
  \cup {a.file : a \in returned} \cup deleteStarted

DeleteOriginalKey(file) == OriginalKey(STORAGE, file)
DeleteThumbKey(file) == ThumbKey(STORAGE, DeleteThumbName(file))

\* local backend, lines 222-226: the synchronous run from the thumbnail's
\* existsSync to either the unlink being issued or the response
DeleteLocalThumbCheck(st, r) ==
  LET key == DeleteThumbKey(r.file)
      q == [r EXCEPT !.ops = Append(@, Op("exists", key))]
  IN IF Exists(st, key) THEN [q EXCEPT !.pc = "thumb"]
     ELSE Respond(q, 200, "", "")

\* DeleteLocalOriginalCheck unlinking without the existsSync
DeleteLocalOriginalUnchecked(st, r) ==
  [r EXCEPT !.pc = "original",
            !.ops = Append(@, Op("exists", DeleteOriginalKey(r.file)))]

\* local backend, lines 220-221: existsSync of the original
DeleteLocalOriginalCheck(st, r) ==
  LET key == DeleteOriginalKey(r.file)
      q == [r EXCEPT !.ops = Append(@, Op("exists", key))]
  IN IF Exists(st, key) THEN [q EXCEPT !.pc = "original"]
     ELSE DeleteLocalThumbCheck(st, q)

\* a delete goes on in flight or answers; r is the request as it was in
\* flight, NewDelete for one that arrives
DeleteContinue(r, q) ==
  IF q.pc = "done"
    THEN /\ resp' = Answer("delete", q)
         /\ del' = IF r = NewDelete THEN del ELSE Leave(del, r)
    ELSE /\ resp' = resp
         /\ del' = IF r = NewDelete THEN del (+) One(q) ELSE Step(del, r, q)

\* lines 209-215 and 220-221: the key check and the synchronous run up to the
\* first await
\* again records that the response sent last, when this request arrives, is
\* the success of a delete of the same id
DeleteStart ==
  /\ started < MaxRequests
  /\ started' = started + 1
  /\ \E file \in KnownFiles, key \in SuppliedKeys :
       LET r == [NewDelete EXCEPT !.file = file, !.key = key,
                                  !.again = /\ resp.kind = "delete"
                                            /\ resp.req.status = 200
                                            /\ resp.req.file = file]
       IN IF Forbidden(ADMIN_KEY, key)
            THEN /\ DeleteContinue(NewDelete, Respond(r, 403, "forbidden", ""))
                 /\ deleteStarted' = deleteStarted
            ELSE /\ DeleteContinue(NewDelete,
                      IF STORAGE = "s3" THEN r ELSE DeleteLocalOriginalCheck(store, r))
                 /\ deleteStarted' = deleteStarted \cup {file}
  /\ UNCHANGED <<STORAGE, ADMIN_KEY, clock, store, up, lst, returned>>

\* what a backend delete does: deleteObject (lines 215, 218) succeeds on an
\* absent key, unlink (lines 221, 224) rejects with ENOENT on an absent path;
\* either call can also fail on its own
DeleteOutcome(st, key, ok) ==
  IF ~ok THEN "io"
  ELSE IF STORAGE = "s3" \/ Exists(st, key) THEN ""
  ELSE "enoent"

\* line 215 and line 221, then the synchronous run to the next await
DeleteOriginal(r) ==
  /\ r.pc = "original"
  /\ LET key == DeleteOriginalKey(r.file)
         q == [r EXCEPT !.ops = Append(@, Op("delete", key))]
     IN \E ok \in BOOLEAN :
          LET out == DeleteOutcome(store, key, ok)
          IN IF out = ""
               THEN /\ store' = Remove(store, key)
                    /\ DeleteContinue(r,
                         IF STORAGE = "s3" THEN [q EXCEPT !.pc = "thumb"]
                         ELSE DeleteLocalThumbCheck(store', q))
               ELSE /\ store' = store
                    /\ DeleteContinue(r, Respond(q, 500, "Server error", out))
  /\ UNCHANGED <<STORAGE, ADMIN_KEY, clock, up, lst, started, returned, deleteStarted>>

\* lines 216-218 and 222-226: the delete of the thumbnail and the response
DeleteThumb(r) ==
  /\ r.pc = "thumb"
  /\ LET key == DeleteThumbKey(r.file)
         q == [r EXCEPT !.ops = Append(@, Op("delete", key))]
     IN \E ok \in BOOLEAN :
          LET out == DeleteOutcome(store, key, ok)
          IN IF out = ""
               THEN /\ store' = Remove(store, key)
                    /\ DeleteContinue(r, Respond(q, 200, "", ""))
               ELSE /\ store' = store
                    /\ DeleteContinue(r, Respond(q, 500, "Server error", out))
  /\ UNCHANGED <<STORAGE, ADMIN_KEY, clock, up, lst, started, returned, deleteStarted>>

\* ------------------------------------------------------------------- list
\* the characters of the keys in code-unit order, which is the order S3
\* lists keys in
ALPHABET ==
  <<"-", ".", "/", "0", "1", "2", "3", "4", "5", "6", "7", "8", "9", "_",
    "a", "b", "c", "d", "e", "f", "g", "h", "i", "j", "k", "l", "m", "n",
    "o", "p", "q", "r", "s", "t", "u", "v", "w", "x", "y", "z">>

Code(c) == CHOOSE i \in 1..Len(ALPHABET) : ALPHABET[i] = c

RECURSIVE LexLess(_, _)
LexLess(a, b) ==
  IF a = <<>> THEN b # <<>>
  ELSE IF b = <<>> THEN FALSE
  ELSE IF Head(a) = Head(b) THEN LexLess(Tail(a), Tail(b))
  ELSE Code(Head(a)) < Code(Head(b))

\* the keys of a set in ascending order
RECURSIVE SortKeys(_)
SortKeys(S) ==
  IF S = {} THEN <<>>
  ELSE LET m == CHOOSE k \in S : \A j \in S \ {k} : LexLess(k, j)
       IN <<m>> \o SortKeys(S \ {m})

\* Array.prototype.reverse
Reverse(s) == [i \in 1..Len(s) |-> s[Len(s) + 1 - i]]

Entry(file, thumb, date) == [file |-> file, thumbnail |-> thumb, date |-> date]

\* the first page of a listing: the response is truncated after MaxKeys keys
Page(keys) == SubSeq(keys, 1, IF Len(keys) < MaxKeys THEN Len(keys) ELSE MaxKeys)

\* lines 159-160: listObjectsV2 with Prefix 'images/' answers the keys under
\* the prefix in ascending key order, one page of them; the call is made once,
\* with no ContinuationToken
ListObjects(st) == Page(SortKeys({k \in DOMAIN st : StartsWith(k, IMAGES_PREFIX)}))

\* line 161: the filter on the listed keys
S3Filter(key) == ~EndsWith(key, SLASH)

\* lines 161-172: filter, map to entries, reverse
ListS3Items(st) ==
  LET contents == SelectSeq(ListObjects(st), S3Filter)
  IN Reverse([i \in 1..Len(contents) |->
       Entry(Basename(contents[i]), ListThumbS3(Basename(contents[i])), st[contents[i]])])

\* line 176: readdir(UPLOAD_DIR), the names directly under the directory; the
\* thumbs directory is created at startup (line 36)
Readdir(st) ==
  {THUMBS} \cup
  { LET rest == SubSeq(k, Len(UPLOAD_DIR) + 2, Len(k))
        i == IndexOf(rest, SLASH)
    IN IF i = 0 THEN rest ELSE SubSeq(rest, 1, i - 1)
    : k \in {j \in DOMAIN st : StartsWith(j, UPLOAD_DIR \o SLASH)} }

IsDirectory(st, f) ==
  f = THUMBS \/ \E k \in DOMAIN st : StartsWith(k, PathJoin(UPLOAD_DIR, f) \o SLASH)

\* line 177: the names that are neither 'thumbs' nor a directory
LocalImages(st) == {f \in Readdir(st) : f # THUMBS /\ ~IsDirectory(st, f)}

\* line 190: the entries in an order items.sort can leave them in
SortedByDateDesc(items) == \A i, j \in 1..Len(items) : i < j => items[i].date >= items[j].date

Orderings(S) ==
  {f \in [1..Cardinality(S) -> S] : \A x \in S : \E i \in 1..Cardinality(S) : f[i] = x}

NewList == [pc |-> "stat", files |-> {}, status |-> 0, items |-> <<>>, cause |-> ""]

\* lines 155-173 (one listObjectsV2 call and the response) and lines 176-177
\* (readdir and the filter, up to the stats being awaited); lines 193-196 when
\* the backend call fails
ListStart ==
  /\ started < MaxRequests
  /\ started' = started + 1
  /\ \E ok \in BOOLEAN :
       IF ~ok
         THEN /\ resp' = Answer("list", [NewList EXCEPT !.pc = "done", !.status = 500,
                                                       !.cause = "io"])
              /\ lst' = lst
       ELSE IF STORAGE = "s3"
         THEN /\ resp' = Answer("list", [NewList EXCEPT !.pc = "done", !.status = 200,
                                                       !.items = ListS3Items(store)])
              /\ lst' = lst
       ELSE /\ lst' = lst (+) One([NewList EXCEPT !.files = LocalImages(store)])
            /\ resp' = resp
  /\ UNCHANGED <<STORAGE, ADMIN_KEY, clock, store, up, del, returned, deleteStarted>>

\* lines 178-191: the stats (one rejects when its file is gone), the entries,
\* the sort and the response
ListLocalStat(r) ==
  /\ r.pc = "stat"
  /\ lst' = Leave(lst, r)
  /\ IF \A f \in r.files : Exists(store, PathJoin(UPLOAD_DIR, f))
       THEN \E p \in Orderings(r.files) :
              LET items == [i \in 1..Len(p) |->
                    Entry(p[i], ListThumbLocal(p[i]), store[PathJoin(UPLOAD_DIR, p[i])])]
              IN /\ SortedByDateDesc(items)
                 /\ resp' = Answer("list", [r EXCEPT !.pc = "done", !.status = 200,
                                                      !.items = items])
       ELSE resp' = Answer("list", [r EXCEPT !.pc = "done", !.status = 500,
                                                !.cause = "enoent"])
  /\ UNCHANGED <<STORAGE, ADMIN_KEY, clock, store, up, del, started, returned,
                 deleteStarted>>

\* ------------------------------------------------------------ state machine
\* Date.now() advances
Tick ==
  /\ clock < MaxClock
  /\ clock' = clock + 1
  /\ UNCHANGED <<STORAGE, ADMIN_KEY, store, up, del, lst, resp, started, returned,
                 deleteStarted>>

EmptyStore == [k \in {} |-> 0]

\* an asset an earlier upload stored, under a name of the upload's making
EARLIER == GenFilename(1, <<"b">>, PNG_EXT)

StoreWith(storage, filename, ext, now) ==
  Put(Put(EmptyStore, OriginalKey(storage, filename), now),
      ThumbKey(storage, UploadThumbName(filename, ext)), now)

\* the server starts over a backend that is empty or holds an earlier asset
Init ==
  /\ STORAGE \in {"local", "s3"}
  /\ ADMIN_KEY \in AdminKeys
  /\ clock = 1
  /\ \E earlier \in BOOLEAN :
       /\ store = IF earlier THEN StoreWith(STORAGE, EARLIER, PNG_EXT, 1) ELSE EmptyStore
       /\ returned = IF earlier
                        THEN {Asset(EARLIER, UploadThumbName(EARLIER, PNG_EXT))}
                        ELSE {}
  /\ up = EmptyBag
  /\ del = EmptyBag
  /\ lst = EmptyBag
  /\ resp = NoAnswer
  /\ started = 0
  /\ deleteStarted = {}

\* the handlers running concurrently; the uploads are image files
Next ==
  \/ UploadReceive(ImageFiles)
  \/ \E r \in InFlight(up) : UploadPutOriginal(r)
  \/ \E r \in InFlight(up) : UploadPutThumb(r)
  \/ DeleteStart
  \/ \E r \in InFlight(del) : DeleteOriginal(r)
  \/ \E r \in InFlight(del) : DeleteThumb(r)
  \/ ListStart
  \/ \E r \in InFlight(lst) : ListLocalStat(r)
  \/ Tick

Spec == Init /\ [][Next]_vars

\* no request in flight
Quiet == up = EmptyBag /\ del = EmptyBag /\ lst = EmptyBag

\* one request at a time: a request arrives when the one before is answered;
\* the uploads are files of any content
NextSeq ==
  \/ Quiet /\ UploadReceive(AnyFiles)
  \/ \E r \in InFlight(up) : UploadPutOriginal(r)
  \/ \E r \in InFlight(up) : UploadPutThumb(r)
  \/ Quiet /\ DeleteStart
  \/ \E r \in InFlight(del) : DeleteOriginal(r)
  \/ \E r \in InFlight(del) : DeleteThumb(r)
  \/ Quiet /\ ListStart
  \/ \E r \in InFlight(lst) : ListLocalStat(r)
  \/ Tick

SpecSeq == Init /\ [][NextSeq]_vars

\* ------------------------------------------------------------------ claims
\* the requests in view: those in flight and the one answered last
Uploads == InFlight(up) \cup (IF resp.kind = "upload" THEN {resp.req} ELSE {})
Deletes == InFlight(del) \cup (IF resp.kind = "delete" THEN {resp.req} ELSE {})

AnsweredUpload == resp.kind = "upload"
AnsweredDelete == resp.kind = "delete"
AnsweredList == resp.kind = "list"

\* the put of the thumbnail rejected after the put of the original resolved
ThumbPutFailed(r) == r.pc = "done" /\ r.cause = "io" /\ Len(r.ops) = 2

\* C1: when the put of the thumbnail fails after the put of the original
\* succeeded, the upload has attempted a delete of the original key by the
\* time it reports the failure.
UploadCleansUpOriginal ==
  AnsweredUpload /\ ThumbPutFailed(resp.req) =>
    \E i \in 1..Len(resp.req.ops) :
      resp.req.ops[i] = Op("delete", OriginalKey(STORAGE, resp.req.filename))

OversizeRejected ==
  \A r \in Uploads :
    r.hasFile /\ r.size > MAX_FILE_SIZE =>
      /\ r.pc = "done"
      /\ r.status >= 400
      /\ r.error = "LIMIT_FILE_SIZE"
      /\ r.ops = <<>>

\* C3 witness: an over-long file has been answered
OversizeAnswered ==
  AnsweredUpload /\ resp.req.hasFile /\ resp.req.size = MAX_FILE_SIZE + 1

Unsupported(r) ==
  r.pc = "done" /\ r.status = 400 /\ r.error = "Unsupported file type" /\ r.ops = <<>>

\* the files the handler sees
Handled(r) == r.hasFile /\ r.size <= MAX_FILE_SIZE

\* C4 as stated: a file whose sniffed signature is none of the allowed image
\* types is answered unsupported, with no backend write, whatever the
\* declared type.
UnsniffedRejected ==
  \A r \in Uploads : Handled(r) /\ r.sniff \notin ALLOWED => Unsupported(r)

\* C4 amended: a file sniffed as a type outside the allow-list is answered
\* unsupported with no backend write, whatever the declared type; a file
\* sniffing yields no type for is judged by its declared type instead.
SniffedTypeDecides ==
  \A r \in Uploads :
    Handled(r) =>
      /\ r.sniff # NONE /\ r.sniff \notin ALLOWED => Unsupported(r)
      /\ r.sniff = NONE /\ r.declared \notin ALLOWED => Unsupported(r)
      /\ r.sniff = NONE /\ r.declared \in ALLOWED => ~Unsupported(r)

\* C4 witness: a file sniffed as a PDF and declared an image is answered
\* unsupported
DisguisedFileRejected ==
  /\ AnsweredUpload /\ Unsupported(resp.req)
  /\ resp.req.sniff = PDF /\ resp.req.declared \in ALLOWED

\* C5: an upload whose thumbnail derivation fails is answered 500 having
\* issued no put, and an upload issues a put only with its thumbnail derived.
ThumbnailFailureWritesNothing ==
  \A r \in Uploads :
    /\ r.thumb = "failed" => r.pc = "done" /\ r.status = 500 /\ r.ops = <<>>
    /\ r.ops # <<>> => r.thumb = "derived"

\* C5 witness: an upload has been answered after sharp failed
ThumbnailFailed == AnsweredUpload /\ resp.req.thumb = "failed"

\* C6: with an admin key configured, a delete whose key is absent or differs
\* from it is answered 403 having issued no backend call, and a delete with
\* the matching key is not: it goes on to the backend and answers 200 unless
\* a backend call rejects.
DeleteKeyChecked ==
  ADMIN_KEY # "" =>
    \A r \in Deletes :
      /\ r.key # ADMIN_KEY => r.pc = "done" /\ r.status = 403 /\ r.ops = <<>>
      /\ r.key = ADMIN_KEY => r.status # 403
      /\ r.key = ADMIN_KEY /\ r.pc = "done" /\ r.cause = "" => r.status = 200

\* C6 witness: a delete with a wrong key was refused where one with the
\* right key had removed nothing yet
DeleteRefused ==
  /\ ADMIN_KEY # "" /\ AnsweredDelete
  /\ resp.req.key = "ABC" /\ resp.req.status = 403
  /\ Exists(store, DeleteOriginalKey(resp.req.file))

\* C7: in a run of one request at a time, a step taken while a delete of an
\* id that follows the success of a delete of the same id is in flight leaves
\* the backend as it is, and a delete that passes the key check answers 200
\* unless a backend call fails, whatever part of the asset is there.
DeleteTwice ==
  [][/\ \A r \in InFlight(del) : r.again => store' = store
     /\ resp'.kind = "delete" /\ resp'.req.status # 403 =>
          resp'.req.status = 200 \/ resp'.req.cause = "io"]_vars

\* C7 witness: the second of two deletes of an uploaded asset answered 200
DeletedAgain ==
  /\ AnsweredDelete /\ resp.req.again /\ resp.req.status = 200
  /\ resp.req.file \in {a.file : a \in returned}

\* C8: the thumbnail name an upload generates with its file name is the one
\* Delete computes from the file name and the one List computes from it on
\* either backend; the thumbnail key the upload puts is the key Delete
\* removes; and a List entry for an answered asset names its thumbnail.
NamingRoundTrip ==
  /\ \A r \in {q \in Uploads : q.filename # <<>>} :
       /\ r.thumbName = DeleteThumbName(r.filename)
       /\ r.thumbName = ListThumbLocal(r.filename)
       /\ r.thumbName = ListThumbS3(r.filename)
       /\ Len(r.ops) = 2 => r.ops[2].key = DeleteThumbKey(r.filename)
  /\ AnsweredList =>
       \A i \in 1..Len(resp.req.items), a \in returned :
         resp.req.items[i].file = a.file => resp.req.items[i].thumbnail = a.thumbnail

\* C8 witness: a List entry is for an asset an upload of this run answered for
ListedUploadedAsset ==
  /\ AnsweredList
  /\ \E i \in 1..Len(resp.req.items), a \in returned :
       resp.req.items[i].file = a.file /\ a.file # EARLIER

\* ------------------------------------------------- names with several dots
\* file names put in the backend by other means than an upload
MaxDots == 2
Segments == {<<"a">>, PNG_EXT}

RECURSIVE NamesOf(_)
NamesOf(n) ==
  IF n = 1 THEN Segments
  ELSE {a \o DOT \o b : a \in NamesOf(n - 1), b \in Segments}

StoredNames == UNION {NamesOf(n) : n \in 2..(MaxDots + 1)}

DotCount(f) == Cardinality({i \in 1..Len(f) : f[i] = "."})

\* section 4.2 of the specification: the marker goes immediately before the
\* final extension
InsertBeforeFinalExt(f) ==
  LET i == LastIndexOf(f, DOT)
  IN SubSeq(f, 1, i - 1) \o THUMB_MARK \o SubSeq(f, i, Len(f))

InitNames ==
  /\ STORAGE \in {"local", "s3"}
  /\ ADMIN_KEY \in AdminKeys
  /\ clock = 1
  /\ \E f \in StoredNames :
       store = Put(Put(EmptyStore, OriginalKey(STORAGE, f), 1),
                   ThumbKey(STORAGE, InsertBeforeFinalExt(f)), 1)
  /\ returned = {}
  /\ up = EmptyBag
  /\ del = EmptyBag
  /\ lst = EmptyBag
  /\ resp = NoAnswer
  /\ started = 0
  /\ deleteStarted = {}

NextNames ==
  \/ DeleteStart
  \/ \E r \in InFlight(del) : DeleteOriginal(r)
  \/ \E r \in InFlight(del) : DeleteThumb(r)
  \/ ListStart
  \/ \E r \in InFlight(lst) : ListLocalStat(r)
  \/ Tick

SpecNames == InitNames /\ [][NextNames]_vars

\* C9: for a stored file name with more than one dot, the thumbnail name List
\* answers and the thumbnail key Delete works on have the marker immediately
\* before the final extension.
ThumbBeforeFinalExtension ==
  /\ AnsweredList =>
       \A i \in 1..Len(resp.req.items) :
         DotCount(resp.req.items[i].file) > 1 =>
           resp.req.items[i].thumbnail = InsertBeforeFinalExt(resp.req.items[i].file)
  /\ \A r \in Deletes :
       DotCount(r.file) > 1 =>
         \A i \in 1..Len(r.ops) :
           r.ops[i].key \in {OriginalKey(STORAGE, r.file),
                             ThumbKey(STORAGE, InsertBeforeFinalExt(r.file))}

\* the backend holds the assets the uploads answered for and nothing else
StoreIsReturned ==
  DOMAIN store =
    UNION {{OriginalKey(STORAGE, a.file), ThumbKey(STORAGE, a.thumbnail)} : a \in returned}

\* C10: in a run of one request at a time with no delete, over a backend
\* holding the assets of N successful uploads, List answers N entries, one
\* for each original and none for a thumbnail.
ListOnePerOriginal ==
  AnsweredList /\ resp.req.status = 200 /\ deleteStarted = {} /\ StoreIsReturned =>
    /\ Len(resp.req.items) = Cardinality(returned)
    /\ \A a \in returned :
         /\ \E i \in 1..Len(resp.req.items) : resp.req.items[i].file = a.file
         /\ \A i \in 1..Len(resp.req.items) : resp.req.items[i].file # a.thumbnail

\* the original key and the thumbnail key Delete derives from an id
AssetGone(st, file) ==
  ~Exists(st, DeleteOriginalKey(file)) /\ ~Exists(st, DeleteThumbKey(file))

DeleteSucceeded(a) == a.kind = "delete" /\ a.req.status = 200

\* C11: in a run of one request at a time, once a delete that passed the key
\* check has answered 200 and as long as no upload is in flight, neither the
\* original key of its id nor the thumbnail key derived from it is in the
\* backend, and a List that follows the answer and answers 200 has no entry
\* whose file is the id.
DeletedIsGone ==
  [][/\ DeleteSucceeded(resp') /\ up' = EmptyBag => AssetGone(store', resp'.req.file)
     /\ DeleteSucceeded(resp) /\ resp'.kind = "list" /\ resp'.req.status = 200 =>
          \A i \in 1..Len(resp'.req.items) : resp'.req.items[i].file # resp.req.file]_vars

\* C11 witness: a List has answered 200 after the delete of the earlier asset,
\* which was in the backend, removed both its keys
ListedAfterDelete ==
  /\ AnsweredList /\ resp.req.status = 200
  /\ returned # {} /\ deleteStarted = {EARLIER}
  /\ AssetGone(store, EARLIER)

\* C12: the entries a List answers are in order of non-increasing modification
\* time of their blobs, on either backend and however the uploads that wrote
\* them interleaved.
ListNewestFirst ==
  AnsweredList /\ resp.req.status = 200 => SortedByDateDesc(resp.req.items)

\* the type a file name's extension stands for
ExtOf(name) == Slice1(Extname(name))

FollowsType(r, t) ==
  /\ r.detected = t
  /\ ExtOf(r.filename) = MimeExtension(t)
  /\ ExtOf(r.thumbName) = MimeExtension(t)

\* C13: for an upload that got its names, when sniffing yields a type the
\* file name's extension, the thumbnail name's extension and the media type
\* the upload answers with are those of the sniffed type, whatever type the
\* client declared; when sniffing yields none they are those of the declared
\* type.
NamesFollowSniffedType ==
  \A r \in {q \in Uploads : q.filename # <<>>} :
    /\ r.sniff # NONE => FollowsType(r, r.sniff)
    /\ r.sniff = NONE => FollowsType(r, r.declared)

\* C13 witness: an upload of PNG bytes declared a GIF has answered 200
SniffedBeatsDeclared ==
  /\ AnsweredUpload /\ resp.req.status = 200
  /\ resp.req.sniff = PNG /\ resp.req.declared = GIF

\* the fallback happens too: an upload of unrecognised bytes declared a GIF
\* has answered 200 under a gif name
DeclaredUsedUnsniffed ==
  /\ AnsweredUpload /\ resp.req.status = 200
  /\ resp.req.sniff = NONE /\ ExtOf(resp.req.filename) = MimeExtension(GIF)

\* the keys an upload has issued a put to
PutKeys(r) == {r.ops[i].key : i \in 1..Len(r.ops)}

\* C14: no two uploads issue a put to the same key: of the uploads in flight
\* that have issued a put no two are alike, and no two uploads in view (in
\* flight, or the one answered last) have a put key in common.
UploadKeysUnique ==
  /\ \A r \in InFlight(up) : r.ops # <<>> => CopiesIn(r, up) = 1
  /\ \A r, q \in Uploads : r # q => PutKeys(r) \cap PutKeys(q) = {}

\* C15: on the local backend, however deletes interleave, a delete that passed
\* the key check answers 200 unless a backend call fails of itself: none ends
\* in a server error for finding the file already removed.
ConcurrentDeletesSucceed ==
  STORAGE = "local" =>
    \A r \in Deletes :
      r.pc = "done" /\ r.status # 403 => r.status = 200 \/ r.cause = "io"

\* the blobs under the asset prefix: the keys under images/ on S3, the files
\* directly under the upload directory on the local backend
UnderPrefix(st) ==
  IF STORAGE = "s3" THEN {k \in DOMAIN st : StartsWith(k, IMAGES_PREFIX)}
  ELSE {k \in DOMAIN st : k = PathJoin(UPLOAD_DIR, Basename(k))}

\* C16: in a run of one request at a time, the List answered last, with
\* nothing having run since, has an entry for every blob then under the asset
\* prefix, however many they are.
ListCoversPrefix ==
  AnsweredList /\ resp.req.status = 200 /\ Quiet =>
    \A k \in UnderPrefix(store) :
      \E i \in 1..Len(resp.req.items) : resp.req.items[i].file = Basename(k)

\* ------------------------------------------------ runs with a sound backend
\* the response sent last is not that of a backend call failing of itself
NoFault == resp.kind = "none" \/ resp.req.cause # "io"

\* the handlers running concurrently over a backend whose calls do not fail
NextOk ==
  \/ UploadReceive(ImageFiles) /\ NoFault'
  \/ \E r \in InFlight(up) : UploadPutOriginal(r) /\ NoFault'
  \/ \E r \in InFlight(up) : UploadPutThumb(r) /\ NoFault'
  \/ DeleteStart /\ NoFault'
  \/ \E r \in InFlight(del) : DeleteOriginal(r) /\ NoFault'
  \/ \E r \in InFlight(del) : DeleteThumb(r) /\ NoFault'
  \/ ListStart /\ NoFault'
  \/ \E r \in InFlight(lst) : ListLocalStat(r) /\ NoFault'
  \/ Tick /\ NoFault'

SpecOk == Init /\ [][NextOk]_vars

\* C17: with no backend call failing, whenever no upload and no delete is in
\* flight, every thumbnail an upload stored that is in the backend has its
\* original in the backend too.
ThumbHasOriginal ==
  up = EmptyBag /\ del = EmptyBag =>
    \A a \in returned :
      Exists(store, ThumbKey(STORAGE, a.thumbnail)) =>
        Exists(store, OriginalKey(STORAGE, a.file))

====
